---- MODULE Spec2Model ----
(***************************************************************************)
(* A model of the DroneChoreography program: the real-time beat detector   *)
(* (music_beat_sync.py), the drone controller (drone_control.py) and the   *)
(* way main.py couples them.                                               *)
(*                                                                         *)
(* Time is the value of time.time(), counted in ticks of 0.1 s.  Energies  *)
(* are the values of get_band_energy, counted in integer units.            *)
(***************************************************************************)
EXTENDS Integers, Sequences, FiniteSets, TLC

VARIABLES
    now,                \* time.time(), in ticks of 0.1 s
    \* ---- DroneController -------------------------------------------------
    simulation_mode,    \* self.simulation_mode
    is_flying,          \* self.is_flying
    command_queue,      \* self.command_queue: sequence of <<current_time, drum_type>>
    last_command_time,  \* self.last_command_time
    \* ---- what the drone has done (history, read by the properties only) --
    offer_last,         \* the last perform_dance_move call and how it ended
    exec_last,          \* the last run of _execute_next_move
    exec_prev,          \* the run of _execute_next_move before it: time, failure
    \* ---- RealTimeBeatDetector: the classifier ----------------------------
    band_energies,      \* self.band_energies: band -> list of energies
    last_visualization_time,    \* self.last_visualization_time
    \* ---- what the classifier has done (history) --------------------------
    verdict,            \* the outcome of the last is_music_beat call
    classified,         \* the number of is_music_beat calls so far
    \* ---- RealTimeBeatDetector: pipeline and lifecycle --------------------
    is_running,         \* self.is_running
    audio_queue,        \* self.audio_queue: the frames queued, oldest first
    last_beat_time,     \* self.last_beat_time
    beat_count,         \* self.beat_count
    beat_callbacks,     \* self.beat_callbacks: the listeners, in registration order
    p,                  \* self.p: "unset", "live" or "terminated"
    stream,             \* self.stream: "unset", "active" or "closed"
    device_index,       \* self.device_index: "none" or "found"
    threads,            \* the consumer threads started so far, each at its place
                        \* in process_audio; self.process_thread is the last
    call,               \* caller -> the place of its start() or stop() call
    \* ---- what the detector has done (history) ----------------------------
    produced,           \* the number of audio_callback calls so far
    push_last,          \* how the last audio_callback call ended
    beat_prev_time,     \* the time of the accepted beat before the last one
    dispatched,         \* the listener calls made for the last accepted beat
    loop_errors,        \* the number of "Error processing audio" so far
    call_result,        \* caller -> how its last start() or stop() call ended
    \* ---- main() of main.py ----------------------------------------------
    main_pc,            \* the statement of main() that the main thread is at
    main_locals,        \* whether main's variables drone and detector are set
    land_called         \* whether main() has called drone.land() (history)

droneVars == <<simulation_mode, is_flying, command_queue, last_command_time>>
droneHist == <<offer_last, exec_last, exec_prev>>
clsVars == <<band_energies, last_visualization_time>>
clsHist == <<verdict, classified>>
detVars == <<is_running, audio_queue, last_beat_time, beat_count, beat_callbacks,
             p, stream, device_index, threads, call>>
detHist == <<produced, push_last, beat_prev_time, dispatched, loop_errors,
             call_result>>
mainVars == <<main_pc, main_locals, land_called>>
vars == <<now, droneVars, droneHist, clsVars, clsHist, detVars, detHist, mainVars>>

----------------------------------------------------------------------------
(* Bounds of the model *)

\* The clock is followed for ShortHorizon ticks when the drone or the
\* classifier is driven alone.
ShortHorizon == 2
\* The classifier is followed for MaxFrames frames.
MaxFrames == 4
\* At most MaxListeners listeners are registered.
MaxListeners == 2
\* The running pipeline is followed for MaxProduced audio callbacks.
MaxProduced == 3
\* The lifecycle is followed for MaxStarts consumer threads.
MaxStarts == 2
\* A long run of frames goes on for MaxEvicted frames after the histories
\* are full, and has at most MaxLoudFrames loud frames in the histories.
MaxEvicted == 2
MaxLoudFrames == 2
\* The lifecycle is followed while MaxLifeFrames frames arrive.
MaxLifeFrames == 1
\* A burst of frames is followed for MaxOverflow frames beyond the capacity
\* of the audio queue.
MaxOverflow == 1

----------------------------------------------------------------------------
(* Program constants *)

\* self.min_command_interval = 0.1 (seconds): one tick
min_command_interval == 1
\* self.max_queue_size = 5
max_queue_size == 5
\* self.min_beat_interval = 0.3 (seconds): three ticks
min_beat_interval == 3

\* The ticks it takes to see a beat suppressed by the debounce and a later one
\* accepted.
Horizon == min_beat_interval + 1

\* time.time() when the program starts: seconds since 1970, far beyond every
\* interval of the program, so that "now - 0" exceeds each of them.
Epoch == min_beat_interval + min_command_interval + 1

\* The drum types perform_dance_move is called with ('kick' is the default,
\* and what a beat callback without arguments gets).
DrumTypes == {"kick", "hihat"}

NoTime == 0 - 1
NoOffer == "none"
NoExec == [time |-> NoTime, cmd |-> <<NoTime, "none">>, move |-> "none",
           attempts |-> 0, failed |-> FALSE, raised |-> FALSE]

----------------------------------------------------------------------------
(* DroneController *)

\* _get_moves_for_drum
GetMovesForDrum(drum_type) ==
    CASE drum_type = "kick"  -> <<"move_up", "move_down">>
      [] drum_type = "snare" -> <<"move_left", "move_right">>
      [] drum_type = "hihat" -> <<"rotate_clockwise", "rotate_counter_clockwise">>
      [] drum_type = "toms"  -> <<"move_forward", "move_back">>
      [] OTHER -> <<"flip_forward", "flip_back", "flip_left", "flip_right">>

SeqRange(s) == {s[i] : i \in 1..Len(s)}

\* A move that retries a failing executor call three times.
PerformRealMoveRetrying(drum_type, move, fails) ==
    [move |-> move, attempts |-> IF fails THEN 3 ELSE 1, failed |-> fails,
     raised |-> FALSE]

\* A move whose executor failure is not caught.
PerformRealMoveUncaught(drum_type, move, fails) ==
    [move |-> move, attempts |-> 1, failed |-> fails, raised |-> fails]

\* _perform_real_move: one move of the drum type's moves is chosen and the
\* drone's method for it is called once, inside try/except Exception: a
\* failure is printed and the method returns normally.
PerformRealMove(drum_type, move, fails) ==
    [move |-> move, attempts |-> 1, failed |-> fails, raised |-> FALSE]

\* _perform_simulated_move: the move is printed; no drone call is made.
PerformSimulatedMove(drum_type, move) ==
    [move |-> move, attempts |-> 0, failed |-> FALSE, raised |-> FALSE]

\* A queue of max_queue_size commands still takes one more.
QueueHasRoomOffByOne(q) == Len(q) <= max_queue_size

\* perform_dance_move, line 62: len(self.command_queue) < self.max_queue_size
QueueHasRoom(q) == Len(q) < max_queue_size

\* perform_dance_move, line 67
TimeForNewMove(current_time, last) == current_time - last >= min_command_interval

\* _execute_next_move on the queue q (the caller has just appended to it).
ExecuteNextMove(q, move, fails) ==
    IF q = <<>>
    THEN /\ command_queue' = q
         /\ UNCHANGED <<last_command_time, exec_last, exec_prev>>
    ELSE LET cmd == Head(q)
             res == IF simulation_mode
                    THEN PerformSimulatedMove(cmd[2], move)
                    ELSE PerformRealMove(cmd[2], move, fails)
         IN /\ move \in SeqRange(GetMovesForDrum(cmd[2]))
            /\ last_command_time' = cmd[1]
            /\ command_queue' = Tail(q)
            /\ exec_last' = [time |-> now, cmd |-> cmd, move |-> res.move,
                             attempts |-> res.attempts, failed |-> res.failed,
                             raised |-> res.raised]
            /\ exec_prev' = [time |-> exec_last.time, failed |-> exec_last.failed]

AllMoves == UNION {SeqRange(GetMovesForDrum(d)) : d \in DrumTypes}

\* perform_dance_move(drum_type); move and fails are what random.choice and
\* the drone do if a move is executed.
PerformDanceMoveFlying(drum_type, move, fails) ==
    IF QueueHasRoom(command_queue)
    THEN LET q == Append(command_queue, <<now, drum_type>>)
         IN IF TimeForNewMove(now, last_command_time)
            THEN /\ ExecuteNextMove(q, move, fails)
                 /\ offer_last' = "executed"
            ELSE /\ command_queue' = q
                 /\ offer_last' = "queued"
                 /\ UNCHANGED <<last_command_time, exec_last, exec_prev>>
    ELSE /\ offer_last' = "dropped"
         /\ UNCHANGED <<command_queue, last_command_time, exec_last, exec_prev>>

PerformDanceMoveBody(drum_type, move, fails) ==
    IF ~is_flying
    THEN /\ offer_last' = "ignored"
         /\ UNCHANGED <<command_queue, last_command_time, exec_last, exec_prev>>
    ELSE PerformDanceMoveFlying(drum_type, move, fails)

\* The choices a call makes once it has found the drone flying: a move is
\* drawn only when one is executed, and only a real drone can fail.
MoveChoicesFlying(drum_type) ==
    IF QueueHasRoom(command_queue) /\ TimeForNewMove(now, last_command_time)
    THEN SeqRange(GetMovesForDrum(
            Head(Append(command_queue, <<now, drum_type>>))[2]))
    ELSE {"none"}

FailChoicesFlying ==
    IF ~simulation_mode /\ QueueHasRoom(command_queue)
       /\ TimeForNewMove(now, last_command_time)
    THEN BOOLEAN ELSE {FALSE}

\* The choices a call makes.
MoveChoices(drum_type) ==
    IF is_flying THEN MoveChoicesFlying(drum_type) ELSE {"none"}

FailChoices == IF is_flying THEN FailChoicesFlying ELSE {FALSE}

PerformDanceMove ==
    \E drum_type \in DrumTypes : \E move \in MoveChoices(drum_type) :
    \E fails \in FailChoices :
        /\ PerformDanceMoveBody(drum_type, move, fails)
        /\ UNCHANGED <<now, mainVars, simulation_mode, is_flying, clsVars, clsHist,
                       detVars, detHist>>

\* takeoff: a real drone's takeoff() may raise, and is_flying is then not set.
Takeoff ==
    /\ ~is_flying
    /\ \E ok \in (IF simulation_mode THEN {TRUE} ELSE BOOLEAN) :
          is_flying' = ok
    /\ UNCHANGED <<now, mainVars, simulation_mode, command_queue, last_command_time, droneHist>>
    /\ UNCHANGED <<clsVars, clsHist, detVars, detHist>>

\* land: a real drone's land() may raise, and is_flying is then not cleared.
Land ==
    /\ is_flying
    /\ \E ok \in (IF simulation_mode THEN {TRUE} ELSE BOOLEAN) :
          is_flying' = ~ok
    /\ UNCHANGED <<now, mainVars, simulation_mode, command_queue, last_command_time, droneHist>>
    /\ UNCHANGED <<clsVars, clsHist, detVars, detHist>>

\* The clock advances, up to the time limit.
TickTo(limit) ==
    /\ now < limit
    /\ now' = now + 1
    /\ UNCHANGED <<mainVars, droneVars, droneHist, clsVars, clsHist, detVars,
                   detHist>>

Tick == TickTo(Epoch + ShortHorizon)

\* main(), lines 19-20: detector = None, drone = None
MainInit ==
    /\ main_pc = "m_drone"
    /\ main_locals = [drone |-> FALSE, detector |-> FALSE]
    /\ land_called = FALSE

\* DroneController.__init__
DroneInit ==
    /\ simulation_mode \in BOOLEAN
    /\ is_flying = FALSE
    /\ command_queue = <<>>
    /\ last_command_time = 0
    /\ offer_last = NoOffer
    /\ exec_last = NoExec
    /\ exec_prev = [time |-> NoTime, failed |-> FALSE]


----------------------------------------------------------------------------
(* RealTimeBeatDetector: the classifier (is_music_beat) *)

\* self.history_size = 20
history_size == 20
\* self.min_active_bands = 2
min_active_bands == 2
\* self.visualization_interval = 0.1 (seconds): one tick
visualization_interval == 1

\* self.freq_bands, in declaration order (the order a dict is iterated in)
BandOrder == <<"sub_bass", "bass", "low_mid", "mid">>
Bands == {BandOrder[i] : i \in 1..Len(BandOrder)}

\* The value of get_band_energy: sqrt(mean(square(filtered))) is a float that
\* is never negative, or NaN when the frame holds a NaN sample.
NaN == 0 - 1
IsNaN(x) == x = NaN

\* Floating-point arithmetic and comparison with NaN.
RECURSIVE SumSeq(_)
SumSeq(s) == IF s = <<>> THEN 0 ELSE Head(s) + SumSeq(Tail(s))
HasNaN(s) == \E i \in 1..Len(s) : IsNaN(s[i])
FAdd(x, y) == IF IsNaN(x) \/ IsNaN(y) THEN NaN ELSE x + y

\* The energy of a frame in a band: what get_band_energy(audio_data, band)
\* returns.  A frame is given by its four band energies.
GetBandEnergy(audio_data, band) == audio_data[band]

\* A history that drops the newest sample beyond history_size.
PushEnergyKeepsOldest(h, energy) ==
    LET h1 == Append(h, energy)
    IN IF Len(h1) > history_size THEN SubSeq(h1, 1, history_size) ELSE h1

\* lines 78-82: append, then drop the oldest sample beyond history_size
PushEnergy(h, energy) ==
    LET h1 == Append(h, energy)
    IN IF Len(h1) > history_size THEN Tail(h1) ELSE h1

\* line 86: the samples the average is taken over, self.band_energies[band][:-1]
BaselineSamples(h) == SubSeq(h, 1, Len(h) - 1)

\* A comparison that lets the boundary through.
ExceedsBaselineOrEqual(current_energy, samples) ==
    /\ ~IsNaN(current_energy)
    /\ ~HasNaN(samples)
    /\ 10 * current_energy * Len(samples) >= 13 * SumSeq(samples)

\* line 90: current_energy > avg_energy * 1.3, with avg_energy = np.mean(samples);
\* a comparison with NaN is False.
ExceedsBaseline(current_energy, samples) ==
    /\ ~IsNaN(current_energy)
    /\ ~HasNaN(samples)
    /\ 10 * current_energy * Len(samples) > 13 * SumSeq(samples)

\* A band with one sample is compared with an empty history taken as zero.
IsBandBeatNoWarmup(h) ==
    IF Len(h) >= 2
    THEN ExceedsBaseline(h[Len(h)], BaselineSamples(h))
    ELSE ~IsNaN(h[Len(h)]) /\ h[Len(h)] > 0

\* lines 85-92: is_band_beat, for the history h that already holds the frame's
\* energy; a band with fewer than 2 samples is not examined.
IsBandBeat(h) ==
    IF Len(h) >= 2
    THEN ExceedsBaseline(h[Len(h)], BaselineSamples(h))
    ELSE FALSE

\* A quorum that needs more than min_active_bands bands.
QuorumStrict(active_bands) == active_bands > min_active_bands

\* line 105
Quorum(active_bands) == active_bands >= min_active_bands

\* The sum of the current energies of every band, active or not.
TotalEnergyAllBands(h, active) ==
    LET RECURSIVE Acc(_)
        Acc(i) == IF i = 0 THEN 0
                  ELSE FAdd(Acc(i - 1), h[BandOrder[i]][Len(h[BandOrder[i]])])
    IN Acc(Len(BandOrder))

\* lines 91-93: total_energy, summed band by band in declaration order over the
\* bands in active; h is the histories after the frame's energies were pushed.
TotalEnergy(h, active) ==
    LET RECURSIVE Acc(_)
        Acc(i) == IF i = 0 THEN 0
                  ELSE IF BandOrder[i] \in active
                       THEN FAdd(Acc(i - 1), h[BandOrder[i]][Len(h[BandOrder[i]])])
                       ELSE Acc(i - 1)
    IN Acc(Len(BandOrder))

\* _visualize_beat_detection raises ValueError at int(energy_ratio * 20) when
\* energy / (avg * 1.3) is NaN: the energy or the average is NaN, or both are 0
\* (numpy floats divide by zero without raising).  Only the bands with at
\* least 2 samples are in band_info.
VisualizeRaises(h) ==
    \E b \in Bands :
        /\ Len(h[b]) >= 2
        /\ \/ IsNaN(h[b][Len(h[b])])
           \/ HasNaN(BaselineSamples(h[b]))
           \/ h[b][Len(h[b])] = 0 /\ SumSeq(BaselineSamples(h[b])) = 0

\* is_music_beat(audio_data) at time t, as a function of the state it reads:
\* the new histories, the new last_visualization_time and what it returns or
\* raises.
IsMusicBeat(hist, last_vis, audio_data, t) ==
    LET h == [b \in Bands |-> PushEnergy(hist[b], GetBandEnergy(audio_data, b))]
        active == {b \in Bands : IsBandBeat(h[b])}
        vis_due == t - last_vis >= visualization_interval
        raised == vis_due /\ VisualizeRaises(h)
    IN [band_energies |-> h,
        last_visualization_time |-> IF vis_due /\ ~raised THEN t ELSE last_vis,
        raised |-> raised,
        active |-> active,
        is_beat |-> ~raised /\ Quorum(Cardinality(active)),
        total_energy |-> IF raised THEN 0 ELSE TotalEnergy(h, active)]

NoVerdict == [raised |-> FALSE, active |-> {}, is_beat |-> FALSE, total_energy |-> 0]

\* RealTimeBeatDetector.__init__, the classifier's fields
ClassifierInit ==
    /\ band_energies = [b \in Bands |-> <<>>]
    /\ last_visualization_time = 0
    /\ verdict = NoVerdict
    /\ classified = 0

\* The frames of the model, each given by its band energies.  The four filters
\* run over the same samples: a frame of zeros has energy 0 in every band, a
\* frame with a NaN sample has energy NaN in every band, and any other frame
\* has a positive energy in every band.
SilentFrame == [b \in Bands |-> 0]
InvalidFrame == [b \in Bands |-> NaN]
QuietFrame == [b \in Bands |-> 10]
\* 13 is 1.3 times 10: the boundary of "significantly higher" after a quiet frame
EdgeFrame == [b \in Bands |-> IF b = "low_mid" THEN 14 ELSE 13]
\* Frames louder than a quiet one in one, two, three and four bands.
OneBandFrame == [b \in Bands |-> IF b = "sub_bass" THEN 14 ELSE 10]
TwoBandFrame ==
    [b \in Bands |-> CASE b = "bass" -> 14 [] b = "mid" -> 40 [] OTHER -> 10]
ThreeBandFrame ==
    [b \in Bands |-> CASE b = "sub_bass" -> 40 [] b = "mid" -> 10 [] OTHER -> 14]
FourBandFrame ==
    [b \in Bands |-> IF b \in {"sub_bass", "bass"} THEN 14 ELSE 40]
ClassifierFrames ==
    {SilentFrame, InvalidFrame, QuietFrame, EdgeFrame, OneBandFrame,
     TwoBandFrame, ThreeBandFrame, FourBandFrame}

\* One call of is_music_beat, on the frame audio_data.
ClassifyFrame(audio_data) ==
    /\ LET r == IsMusicBeat(band_energies, last_visualization_time,
                            audio_data, now)
       IN /\ band_energies' = r.band_energies
          /\ last_visualization_time' = r.last_visualization_time
          /\ verdict' = [raised |-> r.raised, active |-> r.active,
                         is_beat |-> r.is_beat,
                         total_energy |-> r.total_energy]
          /\ classified' = classified + 1
    /\ UNCHANGED <<now, mainVars, droneVars, droneHist, detVars, detHist>>

\* One call of is_music_beat, on any frame.
Classify ==
    /\ classified < MaxFrames
    /\ \E audio_data \in ClassifierFrames : ClassifyFrame(audio_data)

----------------------------------------------------------------------------
(* RealTimeBeatDetector: the audio queue and the consumer loop *)

\* self.audio_queue = Queue(maxsize=10)
audio_queue_maxsize == 10
\* self.energy_threshold = 0.0003, in the unit of the energies (0.00003)
energy_threshold == 10

\* The threads that call start() and stop(): the main thread (main.py) and a
\* second thread of the embedding program.
Callers == {"main", "ctl"}
IdleCall == [pc |-> "idle", nested |-> FALSE]

\* What a registered listener does when called: it raises, or it is the
\* drone's perform_dance_move (what main.py registers), which returns.
ListenerKinds == {"raises", "drone"}

\* RealTimeBeatDetector.__init__ (self.p and self.stream are not assigned)
DetectorInit ==
    /\ is_running = FALSE
    /\ audio_queue = <<>>
    /\ last_beat_time = 0
    /\ beat_count = 0
    /\ beat_callbacks = <<>>
    /\ p = "unset"
    /\ stream = "unset"
    /\ device_index = "none"
    /\ threads = <<>>
    /\ call = [c \in Callers |-> IdleCall]
    /\ produced = 0
    /\ push_last = "none"
    /\ beat_prev_time = NoTime
    /\ dispatched = <<>>
    /\ loop_errors = 0
    /\ call_result = [c \in Callers |-> "none"]

\* add_beat_callback of a listener of one of the kinds; main.py registers its
\* listener before start().
AddBeatCallbackOf(kinds) ==
    /\ ~is_running
    /\ threads = <<>>
    /\ Len(beat_callbacks) < MaxListeners
    /\ \E kind \in kinds : beat_callbacks' = Append(beat_callbacks, kind)
    /\ UNCHANGED <<is_running, audio_queue, last_beat_time, beat_count, p, stream,
                   device_index, threads, call>>
    /\ UNCHANGED <<now, mainVars, droneVars, droneHist, clsVars, clsHist, detHist>>

AddBeatCallback == AddBeatCallbackOf(ListenerKinds)

\* A test that lets an eleventh frame through.
QueueFullOffByOne(q) == Len(q) > audio_queue_maxsize

\* Queue.full()
QueueFull(q) == Len(q) >= audio_queue_maxsize

\* A queue that puts the new frame in front of the waiting ones.
PutNowaitInFront(q, x) ==
    IF Len(q) >= audio_queue_maxsize
    THEN [queue |-> q, raised |-> TRUE]
    ELSE [queue |-> <<x>> \o q, raised |-> FALSE]

\* Queue.put_nowait: raises queue.Full on a full queue.
PutNowait(q, x) ==
    IF Len(q) >= audio_queue_maxsize
    THEN [queue |-> q, raised |-> TRUE]
    ELSE [queue |-> Append(q, x), raised |-> FALSE]

\* audio_callback(in_data, ...): called by the audio subsystem while the stream
\* is active; limit bounds the number of calls followed.
AudioCallback(frames, limit) ==
    /\ stream = "active"
    /\ produced < limit
    /\ produced' = produced + 1
    /\ \E audio_data \in frames :
          IF is_running
          THEN IF ~QueueFull(audio_queue)
               THEN LET r == PutNowait(audio_queue, audio_data)
                    IN /\ audio_queue' = r.queue
                       /\ push_last' = IF r.raised THEN "error" ELSE "queued"
               ELSE /\ audio_queue' = audio_queue
                    /\ push_last' = "dropped"
          ELSE /\ audio_queue' = audio_queue
               /\ push_last' = "ignored"
    /\ UNCHANGED <<is_running, last_beat_time, beat_count, beat_callbacks, p, stream,
                   device_index, threads, call>>
    /\ UNCHANGED <<beat_prev_time, dispatched, loop_errors, call_result>>
    /\ UNCHANGED <<now, mainVars, droneVars, droneHist, clsVars, clsHist>>

\* A debounce that accepts a beat at exactly min_beat_interval.
BeatAcceptedAtInterval(is_beat, energy, current_time, last) ==
    /\ is_beat
    /\ energy > energy_threshold
    /\ current_time - last >= min_beat_interval

\* process_audio, lines 168-169
BeatAccepted(is_beat, energy, current_time, last) ==
    /\ is_beat
    /\ energy > energy_threshold
    /\ current_time - last > min_beat_interval

\* The consumer thread i tests the loop condition "while self.is_running".
ConsumerTest(i) ==
    /\ threads[i].pc = "test"
    /\ threads' = [threads EXCEPT ![i].pc = IF is_running THEN "get" ELSE "done"]
    /\ UNCHANGED <<is_running, audio_queue, last_beat_time, beat_count,
                   beat_callbacks, p, stream, device_index, call>>
    /\ UNCHANGED <<now, mainVars, droneVars, droneHist, clsVars, clsHist, detHist>>

\* self.audio_queue.get(timeout=0.1) finds the queue empty: "continue".
ConsumerEmpty(i) ==
    /\ threads[i].pc = "get"
    /\ audio_queue = <<>>
    /\ threads' = [threads EXCEPT ![i].pc = "test"]
    /\ UNCHANGED <<is_running, audio_queue, last_beat_time, beat_count,
                   beat_callbacks, p, stream, device_index, call>>
    /\ UNCHANGED <<now, mainVars, droneVars, droneHist, clsVars, clsHist, detHist>>

\* The consumer thread i takes the oldest frame, classifies it and decides
\* whether it is an accepted beat (lines 159-172).
ConsumerGet(i) ==
    /\ threads[i].pc = "get"
    /\ audio_queue # <<>>
    /\ LET r == IsMusicBeat(band_energies, last_visualization_time,
                            Head(audio_queue), now)
           accepted == /\ ~r.raised
                       /\ BeatAccepted(r.is_beat, r.total_energy, now, last_beat_time)
       IN /\ audio_queue' = Tail(audio_queue)
          /\ band_energies' = r.band_energies
          /\ last_visualization_time' = r.last_visualization_time
          /\ verdict' = [raised |-> r.raised, active |-> r.active,
                         is_beat |-> r.is_beat, total_energy |-> r.total_energy]
          /\ classified' = classified + 1
          /\ IF accepted
             THEN /\ last_beat_time' = now
                  /\ beat_count' = beat_count + 1
                  /\ beat_prev_time' = IF beat_count = 0 THEN NoTime
                                       ELSE last_beat_time
                  /\ dispatched' = <<>>
                  /\ threads' = [threads EXCEPT ![i] =
                        IF beat_callbacks = <<>>
                        THEN [pc |-> "test", idx |-> 0]
                        ELSE [pc |-> "dispatch", idx |-> 1]]
             ELSE /\ threads' = [threads EXCEPT ![i].pc =
                        IF r.raised THEN "except" ELSE "test"]
                  /\ UNCHANGED <<last_beat_time, beat_count, beat_prev_time,
                                 dispatched>>
    /\ UNCHANGED <<is_running, beat_callbacks, p, stream, device_index, call>>
    /\ UNCHANGED <<produced, push_last, loop_errors, call_result>>
    /\ UNCHANGED <<now, mainVars, droneVars, droneHist>>

\* A listener's exception ends the round: it reaches the loop's own handler.
AfterCallbackUnisolated(k, n, raised) ==
    IF raised THEN [pc |-> "except", idx |-> 0]
    ELSE IF k < n THEN [pc |-> "dispatch", idx |-> k + 1]
    ELSE [pc |-> "test", idx |-> 0]

\* Where the consumer goes after calling listener k of n (lines 175-179): the
\* listener's exception is caught and logged, and the for loop goes on.
AfterCallback(k, n, raised) ==
    IF k < n THEN [pc |-> "dispatch", idx |-> k + 1]
    ELSE [pc |-> "test", idx |-> 0]

\* The consumer thread i calls the next listener of the round: callback().
ConsumerCallback(i) ==
    /\ threads[i].pc = "dispatch"
    /\ LET k == threads[i].idx
           kind == beat_callbacks[k]
       IN \E raised \in BOOLEAN :
            /\ \/ /\ kind = "raises"
                  /\ raised
                  /\ UNCHANGED <<command_queue, last_command_time, droneHist>>
               \/ /\ kind = "drone"
                  /\ \E move \in MoveChoices("kick") : \E fails \in FailChoices :
                        PerformDanceMoveBody("kick", move, fails)
                  /\ raised = (offer_last' = "executed" /\ exec_last'.raised)
            /\ dispatched' = Append(dispatched,
                                [idx |-> k, kind |-> kind, error |-> raised])
            /\ threads' = [threads EXCEPT ![i] =
                              AfterCallback(k, Len(beat_callbacks), raised)]
    /\ UNCHANGED <<is_running, audio_queue, last_beat_time, beat_count,
                   beat_callbacks, p, stream, device_index, call>>
    /\ UNCHANGED <<produced, push_last, beat_prev_time, loop_errors, call_result>>
    /\ UNCHANGED <<now, mainVars, simulation_mode, is_flying, clsVars, clsHist>>

\* The same call in two steps, for a listener that is the drone's
\* perform_dance_move.  First the call begins and tests is_flying (lines
\* 55-56): it returns at once when the drone is not flying, else it goes on.
ListenerEnters(i) ==
    /\ threads[i].pc = "dispatch"
    /\ beat_callbacks[threads[i].idx] = "drone"
    /\ LET k == threads[i].idx
       IN IF is_flying
          THEN /\ threads' = [threads EXCEPT ![i].pc = "move"]
               /\ UNCHANGED <<offer_last, dispatched>>
          ELSE /\ offer_last' = "ignored"
               /\ dispatched' = Append(dispatched,
                                   [idx |-> k, kind |-> "drone", error |-> FALSE])
               /\ threads' = [threads EXCEPT ![i] =
                                 AfterCallback(k, Len(beat_callbacks), FALSE)]
    /\ UNCHANGED <<command_queue, last_command_time, exec_last, exec_prev>>
    /\ UNCHANGED <<is_running, audio_queue, last_beat_time, beat_count,
                   beat_callbacks, p, stream, device_index, call>>
    /\ UNCHANGED <<produced, push_last, beat_prev_time, loop_errors, call_result>>
    /\ UNCHANGED <<now, mainVars, simulation_mode, is_flying, clsVars, clsHist>>

\* Then the rest of perform_dance_move runs (lines 58-69) and the call
\* returns; is_flying is not read again.
ListenerMoves(i) ==
    /\ threads[i].pc = "move"
    /\ LET k == threads[i].idx
       IN \E move \in MoveChoicesFlying("kick") : \E fails \in FailChoicesFlying :
            /\ PerformDanceMoveFlying("kick", move, fails)
            /\ dispatched' = Append(dispatched,
                                [idx |-> k, kind |-> "drone",
                                 error |-> (offer_last' = "executed"
                                            /\ exec_last'.raised)])
            /\ threads' = [threads EXCEPT ![i] =
                              AfterCallback(k, Len(beat_callbacks),
                                            offer_last' = "executed"
                                            /\ exec_last'.raised)]
    /\ UNCHANGED <<is_running, audio_queue, last_beat_time, beat_count,
                   beat_callbacks, p, stream, device_index, call>>
    /\ UNCHANGED <<produced, push_last, beat_prev_time, loop_errors, call_result>>
    /\ UNCHANGED <<now, mainVars, simulation_mode, is_flying, clsVars, clsHist>>

\* The loop's own handler (lines 181-185): leave the loop when the detector
\* is stopping, else log "Error processing audio", sleep and go on.
ConsumerExcept(i) ==
    /\ threads[i].pc = "except"
    /\ IF is_running
       THEN /\ threads' = [threads EXCEPT ![i].pc = "test"]
            /\ loop_errors' = loop_errors + 1
       ELSE /\ threads' = [threads EXCEPT ![i].pc = "done"]
            /\ UNCHANGED loop_errors
    /\ UNCHANGED <<is_running, audio_queue, last_beat_time, beat_count,
                   beat_callbacks, p, stream, device_index, call>>
    /\ UNCHANGED <<produced, push_last, beat_prev_time, dispatched, call_result>>
    /\ UNCHANGED <<now, mainVars, droneVars, droneHist, clsVars, clsHist>>

----------------------------------------------------------------------------
(* RealTimeBeatDetector: start() and stop() *)

\* The rest of the detector's state, for the steps of start() and stop().
LifeFrame ==
    /\ UNCHANGED <<audio_queue, last_beat_time, beat_count, beat_callbacks>>
    /\ UNCHANGED <<produced, push_last, beat_prev_time, dispatched, loop_errors>>
    /\ UNCHANGED <<now, mainVars, droneVars, droneHist, clsVars, clsHist>>

SetCall(c, pc, nested) == call' = [call EXCEPT ![c] = [pc |-> pc, nested |-> nested]]
SetResult(c, r) == call_result' = [call_result EXCEPT ![c] = r]

\* A guard that never finds the detector running.
AlreadyRunningIgnored(running) == FALSE

\* start(), line 228: "if self.is_running: return"
AlreadyRunning(running) == running

\* Caller c calls start(): a no-op when the detector is running, else the
\* running flag is set (lines 228-232).
StartCall(c) ==
    /\ call[c].pc = "idle"
    /\ IF AlreadyRunning(is_running)
       THEN /\ SetResult(c, "noop")
            /\ UNCHANGED <<is_running, call>>
       ELSE /\ is_running' = TRUE
            /\ SetCall(c, "s_pyaudio", FALSE)
            /\ SetResult(c, "none")
    /\ UNCHANGED <<p, stream, device_index, threads>>
    /\ LifeFrame

\* self.p = pyaudio.PyAudio() (line 236); it raises when ok is false.
StartPyAudio(c, ok) ==
    /\ call[c].pc = "s_pyaudio"
    /\ IF ok
       THEN /\ p' = "live"
            /\ SetCall(c, IF device_index = "none" THEN "s_device" ELSE "s_thread",
                       FALSE)
       ELSE /\ SetCall(c, "s_except", FALSE)
            /\ UNCHANGED p
    /\ UNCHANGED <<is_running, stream, device_index, threads, call_result>>
    /\ LifeFrame

\* self.device_index = self.find_input_device() (lines 239-240); it raises
\* when ok is false.  find_input_device terminates the handle it creates.
StartFindDevice(c, ok) ==
    /\ call[c].pc = "s_device"
    /\ IF ok
       THEN /\ device_index' = "found"
            /\ SetCall(c, "s_thread", FALSE)
       ELSE /\ SetCall(c, "s_except", FALSE)
            /\ UNCHANGED device_index
    /\ UNCHANGED <<is_running, p, stream, threads, call_result>>
    /\ LifeFrame

\* The consumer thread is created and started (lines 243-245).
StartThread(c) ==
    /\ call[c].pc = "s_thread"
    /\ threads' = Append(threads, [pc |-> "test", idx |-> 0])
    /\ SetCall(c, "s_open", FALSE)
    /\ UNCHANGED <<is_running, p, stream, device_index, call_result>>
    /\ LifeFrame

\* self.stream = self.p.open(...) (lines 248-256); it raises when ok is false.
StartOpen(c, ok) ==
    /\ call[c].pc = "s_open"
    /\ IF ok
       THEN /\ stream' = "active"
            /\ SetCall(c, "s_active", FALSE)
       ELSE /\ SetCall(c, "s_except", FALSE)
            /\ UNCHANGED stream
    /\ UNCHANGED <<is_running, p, device_index, threads, call_result>>
    /\ LifeFrame

\* "if not self.stream.is_active(): raise" (lines 258-259), then the messages.
StartCheckActive(c, ok) ==
    /\ call[c].pc = "s_active"
    /\ SetCall(c, IF ok /\ stream = "active" THEN "s_wait" ELSE "s_except", FALSE)
    /\ UNCHANGED <<is_running, p, stream, device_index, threads, call_result>>
    /\ LifeFrame

\* "while self.is_running: time.sleep(0.1)" (lines 267-268) ends and start()
\* returns.
StartWait(c) ==
    /\ call[c].pc = "s_wait"
    /\ ~is_running
    /\ SetCall(c, "idle", FALSE)
    /\ SetResult(c, "returned")
    /\ UNCHANGED <<is_running, p, stream, device_index, threads>>
    /\ LifeFrame

\* The handler of start() (lines 270-273) logs and calls self.stop(), whose
\* first statement clears the running flag; "raise" follows stop().
StartExcept(c) ==
    /\ call[c].pc = "s_except"
    /\ is_running' = FALSE
    /\ SetCall(c, "t_stream", TRUE)
    /\ UNCHANGED <<p, stream, device_index, threads, call_result>>
    /\ LifeFrame

\* Caller c calls stop(): the running flag is cleared (line 278).
StopCall(c) ==
    /\ call[c].pc = "idle"
    /\ is_running' = FALSE
    /\ SetCall(c, "t_stream", FALSE)
    /\ SetResult(c, "none")
    /\ UNCHANGED <<p, stream, device_index, threads>>
    /\ LifeFrame

\* A stop() in which the error of stopping an already closed stream is not
\* caught.
StopStreamUncaught(c) ==
    /\ call[c].pc = "t_stream"
    /\ IF stream # "active"
       THEN /\ SetCall(c, "idle", FALSE)
            /\ SetResult(c, IF stream = "unset" THEN "AttributeError" ELSE "OSError")
            /\ UNCHANGED stream
       ELSE /\ stream' = "closed"
            /\ SetCall(c, "t_pa", call[c].nested)
            /\ UNCHANGED call_result
    /\ UNCHANGED <<is_running, p, device_index, threads>>
    /\ LifeFrame

\* "if self.stream:" (lines 280-285): AttributeError when start() never
\* assigned self.stream; else the stream is stopped and closed, an error of
\* which is caught and logged.
StopStream(c) ==
    /\ call[c].pc = "t_stream"
    /\ IF stream = "unset"
       THEN /\ SetCall(c, "idle", FALSE)
            /\ SetResult(c, "AttributeError")
            /\ UNCHANGED stream
       ELSE /\ stream' = "closed"
            /\ SetCall(c, "t_pa", call[c].nested)
            /\ UNCHANGED call_result
    /\ UNCHANGED <<is_running, p, device_index, threads>>
    /\ LifeFrame

\* "if self.p:" (lines 287-291): the handle is terminated.
StopTerminate(c) ==
    /\ call[c].pc = "t_pa"
    /\ IF p = "unset"
       THEN /\ SetCall(c, "idle", FALSE)
            /\ SetResult(c, "AttributeError")
            /\ UNCHANGED p
       ELSE /\ p' = "terminated"
            /\ SetCall(c, "t_join", call[c].nested)
            /\ UNCHANGED call_result
    /\ UNCHANGED <<is_running, stream, device_index, threads>>
    /\ LifeFrame

\* A join without a timeout: it returns only when the thread has ended.
StopJoinNoTimeout(c) ==
    /\ call[c].pc = "t_join"
    /\ \/ threads = <<>>
       \/ threads[Len(threads)].pc = "done"
    /\ SetCall(c, "idle", FALSE)
    /\ SetResult(c, IF call[c].nested THEN "raised" ELSE "stopped")
    /\ UNCHANGED <<is_running, p, stream, device_index, threads>>
    /\ LifeFrame

\* "self.process_thread.join(timeout=1.0)" (lines 293-294) returns: the last
\* thread started has ended, or the second has passed while the thread was
\* busy calling the listeners or kept looping because the running flag is set
\* again.  stop() returns; inside start()'s handler the error of start() is
\* raised again.
StopJoin(c) ==
    /\ call[c].pc = "t_join"
    /\ \/ threads = <<>>
       \/ threads[Len(threads)].pc \in {"done", "dispatch", "move"}
       \/ is_running
    /\ SetCall(c, "idle", FALSE)
    /\ SetResult(c, IF call[c].nested THEN "raised" ELSE "stopped")
    /\ UNCHANGED <<is_running, p, stream, device_index, threads>>
    /\ LifeFrame

----------------------------------------------------------------------------
(* The drone controller driven by perform_dance_move calls at arbitrary     *)
(* times.                                                                   *)

InitDrone ==
    /\ now = Epoch
    /\ MainInit
    /\ DroneInit
    /\ ClassifierInit
    /\ DetectorInit

NextDrone == Takeoff \/ Land \/ PerformDanceMove \/ Tick

SpecDrone == InitDrone /\ [][NextDrone]_vars

----------------------------------------------------------------------------
(* The classifier alone: is_music_beat called on any frames at any times.   *)

InitClassifier ==
    /\ now = Epoch
    /\ MainInit
    /\ DroneInit
    /\ simulation_mode
    /\ ClassifierInit
    /\ DetectorInit

NextClassifier == Classify \/ Tick

SpecClassifier == InitClassifier /\ [][NextClassifier]_vars

----------------------------------------------------------------------------
(* The running pipeline, as main.py sets it up: listeners are registered,   *)
(* the drone takes off, the main thread calls start(), and then the audio   *)
(* subsystem delivers frames while the consumer thread classifies them.     *)

\* main(simulation_mode=False): a real drone, whose calls can fail.
InitAll ==
    /\ now = Epoch
    /\ MainInit
    /\ DroneInit
    /\ ~simulation_mode
    /\ ClassifierInit
    /\ DetectorInit

\* drone.takeoff() comes before detector.start() in main.py.
TakeoffBeforeStart == threads = <<>> /\ ~is_running /\ Takeoff

\* start() by the main thread, each step succeeding.
StartUp ==
    \/ StartCall("main")
    \/ StartPyAudio("main", TRUE)
    \/ StartFindDevice("main", TRUE)
    \/ StartThread("main")
    \/ StartOpen("main", TRUE)
    \/ StartCheckActive("main", TRUE)

\* FourBandFrame has at least two active bands after a quiet frame, and again
\* after itself.
PipeFrames == {QuietFrame, FourBandFrame}

AudioCallbackPipe == AudioCallback(PipeFrames, MaxProduced)

ConsumerTakes == \E i \in 1..Len(threads) : ConsumerTest(i) \/ ConsumerGet(i)
ConsumerIdles == \E i \in 1..Len(threads) : ConsumerEmpty(i)
ConsumerDispatches == \E i \in 1..Len(threads) : ConsumerCallback(i)
ConsumerRecovers == \E i \in 1..Len(threads) : ConsumerExcept(i)

\* The clock is followed from the moment the stream delivers frames.
TickRunning == stream = "active" /\ TickTo(Epoch + Horizon)

NextPipe ==
    \/ AddBeatCallback
    \/ TakeoffBeforeStart
    \/ StartUp
    \/ AudioCallbackPipe
    \/ ConsumerTakes
    \/ ConsumerIdles
    \/ ConsumerDispatches
    \/ TickRunning

SpecPipe == InitAll /\ [][NextPipe]_vars

----------------------------------------------------------------------------
(* Backpressure: the audio subsystem delivers a burst of frames, more than  *)
(* the queue holds, while the consumer thread takes them at its own pace.   *)

BurstFrames == {QuietFrame, FourBandFrame}

AudioCallbackBurst ==
    AudioCallback(BurstFrames, audio_queue_maxsize + MaxOverflow)

NextQueue ==
    \/ StartUp
    \/ AudioCallbackBurst
    \/ ConsumerTakes
    \/ ConsumerIdles

SpecQueue == InitAll /\ [][NextQueue]_vars

----------------------------------------------------------------------------
(* The classifier over a long run of frames, beyond the capacity of the     *)
(* histories: quiet frames with a few loud ones anywhere among them.        *)

\* The loud frames that the histories hold.
LoudInHistory ==
    Cardinality({i \in 1..Len(band_energies["mid"]) :
                    band_energies["mid"][i] = FourBandFrame["mid"]})

ClassifyLongRun ==
    /\ classified < history_size + MaxEvicted
    /\ \/ ClassifyFrame(QuietFrame)
       \/ LoudInHistory < MaxLoudFrames /\ ClassifyFrame(FourBandFrame)

NextHistory == ClassifyLongRun

SpecHistory == InitClassifier /\ [][NextHistory]_vars

----------------------------------------------------------------------------
(* The lifecycle: two threads call start() and stop() at any time, any step *)
(* of start() may fail, and frames arrive while the stream is active.       *)

\* At most MaxStarts consumer threads are started.
StartCallBounded(c) == (is_running \/ Len(threads) < MaxStarts) /\ StartCall(c)

AudioCallbackLife == AudioCallback({QuietFrame}, MaxLifeFrames)

NextLife ==
    \/ \E c \in Callers : StartCallBounded(c)
    \/ \E c \in Callers : \E ok \in BOOLEAN : StartPyAudio(c, ok)
    \/ \E c \in Callers : \E ok \in BOOLEAN : StartFindDevice(c, ok)
    \/ \E c \in Callers : StartThread(c)
    \/ \E c \in Callers : \E ok \in BOOLEAN : StartOpen(c, ok)
    \/ \E c \in Callers : \E ok \in BOOLEAN : StartCheckActive(c, ok)
    \/ \E c \in Callers : StartWait(c)
    \/ \E c \in Callers : StartExcept(c)
    \/ \E c \in Callers : StopCall(c)
    \/ \E c \in Callers : StopStream(c)
    \/ \E c \in Callers : StopTerminate(c)
    \/ \E c \in Callers : StopJoin(c)
    \/ AudioCallbackLife
    \/ ConsumerTakes
    \/ ConsumerIdles

SpecLife == InitAll /\ [][NextLife]_vars

----------------------------------------------------------------------------
(* Stopping and restarting a working pipeline: the main thread calls        *)
(* start(), again whenever it has returned, a second thread calls stop() at *)
(* any time, and meanwhile frames arrive and listeners are called.  A       *)
(* listener may take arbitrarily long.                                      *)

StartByMain ==
    \/ StartCallBounded("main")
    \/ StartPyAudio("main", TRUE)
    \/ StartFindDevice("main", TRUE)
    \/ StartThread("main")
    \/ StartOpen("main", TRUE)
    \/ StartCheckActive("main", TRUE)
    \/ StartWait("main")

StopByCtl ==
    \/ StopCall("ctl")
    \/ StopStream("ctl")
    \/ StopTerminate("ctl")
    \/ StopJoin("ctl")

\* The audio is a quiet frame followed by loud ones.
AudioCallbackRestart ==
    AudioCallback({IF produced = 0 THEN QuietFrame ELSE FourBandFrame},
                  MaxProduced)

\* One listener is registered, as in main.py.
AddOneBeatCallback == beat_callbacks = <<>> /\ AddBeatCallback

\* One iteration step of consumer thread i other than a listener call.
ConsumerLoops(i) ==
    /\ i \in 1..Len(threads)
    /\ ConsumerTest(i) \/ ConsumerGet(i) \/ ConsumerEmpty(i)

\* The listener called by consumer thread i returns (or raises).
ListenerReturns(i) == i \in 1..Len(threads) /\ ConsumerCallback(i)

NextRestart ==
    \/ AddOneBeatCallback
    \/ StartByMain
    \/ StopByCtl
    \/ AudioCallbackRestart
    \/ \E i \in 1..MaxStarts : ConsumerLoops(i)
    \/ \E i \in 1..MaxStarts : ListenerReturns(i)

SpecRestart == InitAll /\ [][NextRestart]_vars

----------------------------------------------------------------------------
(* Shutdown: the main thread calls start(), a second thread calls stop() at *)
(* any time.  The one listener returns, or it is one that never returns.    *)

\* A listener of kind "hangs" never returns from its call.
ShutdownListeners == {"drone", "hangs"}

AddShutdownListener == beat_callbacks = <<>> /\ AddBeatCallbackOf(ShutdownListeners)

StartOnceByMain == (threads = <<>> \/ call["main"].pc # "idle") /\ StartByMain

NextShutdown ==
    \/ AddShutdownListener
    \/ StartOnceByMain
    \/ StopByCtl
    \/ AudioCallbackRestart
    \/ \E i \in 1..MaxStarts : ConsumerLoops(i)
    \/ \E i \in 1..MaxStarts : ListenerReturns(i)

\* Consumer thread i is at a step of its loop that it can take: the loop
\* test, or the queue's get, which returns a frame or times out.
Runnable(i) == i \in 1..Len(threads) /\ threads[i].pc \in {"test", "get"}

\* Weak fairness of ConsumerLoops(i), which is enabled exactly when
\* Runnable(i) holds.
ConsumerScheduled(i) == []<>(~Runnable(i)) \/ []<><<ConsumerLoops(i)>>_vars

\* The scheduler runs every thread that can run, and a listener that can
\* return does.
SpecShutdown ==
    /\ InitAll
    /\ [][NextShutdown]_vars
    /\ WF_vars(StopByCtl)
    /\ \A i \in 1..MaxStarts : ConsumerScheduled(i)
    /\ \A j \in 1..MaxStarts : WF_vars(ListenerReturns(j))

----------------------------------------------------------------------------
(* main(): the program of main.py, step by step, with the consumer thread   *)
(* and the audio subsystem running beside it.  Any step that can raise may  *)
(* raise, and Ctrl+C may arrive during the wait and during start().         *)

\* What main's own steps leave alone.
MainFrame ==
    /\ UNCHANGED <<now, simulation_mode, command_queue, last_command_time>>
    /\ UNCHANGED <<droneHist, clsVars, clsHist>>
    /\ UNCHANGED <<is_running, audio_queue, last_beat_time, beat_count, p, stream,
                   device_index, threads, call>>
    /\ UNCHANGED <<produced, push_last, beat_prev_time, dispatched, loop_errors>>

\* Only a real drone's calls can fail.
DroneOutcomes == IF simulation_mode THEN {TRUE} ELSE BOOLEAN

\* drone = DroneController(simulation_mode) (line 25); Tello() may raise.
MainCreatesDrone ==
    /\ main_pc = "m_drone"
    /\ \E ok \in DroneOutcomes :
          /\ main_locals' = [main_locals EXCEPT !.drone = ok]
          /\ main_pc' = IF ok THEN "m_detector" ELSE "m_finally"
    /\ UNCHANGED <<land_called, is_flying, beat_callbacks, call_result>>
    /\ MainFrame

\* detector = RealTimeBeatDetector(), tried three times (lines 28-40); the
\* error of the last attempt is raised.
MainCreatesDetector ==
    /\ main_pc = "m_detector"
    /\ \E ok \in BOOLEAN :
          /\ main_locals' = [main_locals EXCEPT !.detector = ok]
          /\ main_pc' = IF ok THEN "m_connect" ELSE "m_finally"
    /\ UNCHANGED <<land_called, is_flying, beat_callbacks, call_result>>
    /\ MainFrame

\* drone.connect() (line 44).
MainConnects ==
    /\ main_pc = "m_connect"
    /\ \E ok \in DroneOutcomes :
          main_pc' = IF ok THEN "m_register" ELSE "m_finally"
    /\ UNCHANGED <<main_locals, land_called, is_flying, beat_callbacks,
                   call_result>>
    /\ MainFrame

\* detector.add_beat_callback(drone.perform_dance_move) (line 47).
MainRegisters ==
    /\ main_pc = "m_register"
    /\ beat_callbacks' = Append(beat_callbacks, "drone")
    /\ main_pc' = "m_takeoff"
    /\ UNCHANGED <<main_locals, land_called, is_flying, call_result>>
    /\ MainFrame

\* drone.takeoff() (line 51).
MainTakesOff ==
    /\ main_pc = "m_takeoff"
    /\ \E ok \in DroneOutcomes :
          /\ is_flying' = ok
          /\ main_pc' = IF ok THEN "m_sleep" ELSE "m_finally"
    /\ UNCHANGED <<main_locals, land_called, beat_callbacks, call_result>>
    /\ MainFrame

\* time.sleep(2) (line 53) ends, or Ctrl+C interrupts it.
MainSleeps ==
    /\ main_pc = "m_sleep"
    /\ \E interrupted \in BOOLEAN :
          main_pc' = IF interrupted THEN "m_finally" ELSE "m_start"
    /\ UNCHANGED <<main_locals, land_called, is_flying, beat_callbacks,
                   call_result>>
    /\ MainFrame

\* detector.start() (line 60) is called.
MainCallsStart ==
    /\ main_pc = "m_start"
    /\ call_result["main"] = "none"
    /\ StartCall("main")

\* The steps of start(), and of the stop() in its handler.
MainInStart ==
    /\ main_pc = "m_start"
    /\ \/ \E ok \in BOOLEAN : StartPyAudio("main", ok)
       \/ \E ok \in BOOLEAN : StartFindDevice("main", ok)
       \/ StartThread("main")
       \/ \E ok \in BOOLEAN : StartOpen("main", ok)
       \/ \E ok \in BOOLEAN : StartCheckActive("main", ok)
       \/ StartExcept("main")
       \/ StopStream("main")
       \/ StopTerminate("main")
       \/ StopJoin("main")

\* Ctrl+C while start() runs or waits: KeyboardInterrupt is not an Exception,
\* so start()'s handler does not run, and main's handler at line 62 does.
MainInterrupted ==
    /\ main_pc = "m_start"
    /\ call["main"].pc \in {"s_pyaudio", "s_device", "s_thread", "s_open",
                            "s_active", "s_wait"}
    /\ SetCall("main", "idle", FALSE)
    /\ main_pc' = "m_finally"
    /\ UNCHANGED <<main_locals, land_called, is_flying, beat_callbacks,
                   call_result>>
    /\ UNCHANGED <<now, simulation_mode, command_queue, last_command_time>>
    /\ UNCHANGED <<droneHist, clsVars, clsHist>>
    /\ UNCHANGED <<is_running, audio_queue, last_beat_time, beat_count, p, stream,
                   device_index, threads>>
    /\ UNCHANGED <<produced, push_last, beat_prev_time, dispatched, loop_errors>>

\* start() has raised: main's handler at line 64 logs the error.
MainCatches ==
    /\ main_pc = "m_start"
    /\ call["main"].pc = "idle"
    /\ call_result["main"] \in {"raised", "AttributeError"}
    /\ main_pc' = "m_finally"
    /\ UNCHANGED <<main_locals, land_called, is_flying, beat_callbacks,
                   call_result>>
    /\ MainFrame

\* finally: "if detector: detector.stop()" (lines 69-70).
MainCleansUp ==
    /\ main_pc = "m_finally"
    /\ IF main_locals.detector
       THEN /\ main_pc' = "m_stop"
            /\ SetResult("main", "none")
       ELSE /\ main_pc' = "m_land"
            /\ UNCHANGED call_result
    /\ UNCHANGED <<main_locals, land_called, is_flying, beat_callbacks>>
    /\ MainFrame

MainCallsStop ==
    /\ main_pc = "m_stop"
    /\ call_result["main"] = "none"
    /\ StopCall("main")

MainInStop ==
    /\ main_pc = "m_stop"
    /\ StopStream("main") \/ StopTerminate("main") \/ StopJoin("main")

\* stop() has returned, and lines 71-72 follow; or it has raised, and the
\* handler at line 75 logs the error and the cleanup is over.
MainAfterStop ==
    /\ main_pc = "m_stop"
    /\ call["main"].pc = "idle"
    /\ call_result["main"] \in {"stopped", "AttributeError"}
    /\ main_pc' = IF call_result["main"] = "stopped" THEN "m_land" ELSE "m_end"
    /\ UNCHANGED <<main_locals, land_called, is_flying, beat_callbacks,
                   call_result>>
    /\ MainFrame

\* "if drone: if drone.is_flying: drone.land()" (lines 71-74); a real
\* drone's land() may raise, which the handler at line 75 logs.
MainLands ==
    /\ main_pc = "m_land"
    /\ IF main_locals.drone /\ is_flying
       THEN /\ land_called' = TRUE
            /\ \E ok \in DroneOutcomes : is_flying' = ~ok
       ELSE UNCHANGED <<land_called, is_flying>>
    /\ main_pc' = "m_end"
    /\ UNCHANGED <<main_locals, beat_callbacks, call_result>>
    /\ MainFrame

\* The consumer thread calls the drone's listener in two steps.
ConsumerEntersListener == \E i \in 1..Len(threads) : ListenerEnters(i)
ConsumerMoves == \E i \in 1..Len(threads) : ListenerMoves(i)

InitMain ==
    /\ now = Epoch
    /\ MainInit
    /\ DroneInit
    /\ ClassifierInit
    /\ DetectorInit

NextMain ==
    \/ MainCreatesDrone
    \/ MainCreatesDetector
    \/ MainConnects
    \/ MainRegisters
    \/ MainTakesOff
    \/ MainSleeps
    \/ MainCallsStart
    \/ MainInStart
    \/ MainInterrupted
    \/ MainCatches
    \/ MainCleansUp
    \/ MainCallsStop
    \/ MainInStop
    \/ MainAfterStop
    \/ MainLands
    \/ AudioCallbackRestart
    \/ ConsumerTakes
    \/ ConsumerIdles
    \/ ConsumerEntersListener
    \/ ConsumerMoves

SpecMain == InitMain /\ [][NextMain]_vars

----------------------------------------------------------------------------
(* Stopping while listeners are called: the drone's listener is registered  *)
(* up to MaxListeners times, the main thread calls start() once and a       *)
(* second thread calls stop() at any time.  A listener call may take longer *)
(* than the second that stop() waits for the consumer thread.               *)

AddDroneListener == AddBeatCallbackOf({"drone"})

\* The consumer thread is scheduled within the join's second: the join times
\* out only on a thread that is inside a listener call.
JoinAfterCallBegan(c) ==
    /\ \A i \in 1..Len(threads) : threads[i].pc # "dispatch"
    /\ StopJoin(c)

StopByCtlScheduled ==
    \/ StopCall("ctl")
    \/ StopStream("ctl")
    \/ StopTerminate("ctl")
    \/ JoinAfterCallBegan("ctl")

NextListeners ==
    \/ AddDroneListener
    \/ TakeoffBeforeStart
    \/ StartOnceByMain
    \/ StopByCtlScheduled
    \/ AudioCallbackRestart
    \/ \E i \in 1..MaxStarts : ConsumerLoops(i)
    \/ ConsumerEntersListener
    \/ ConsumerMoves

SpecListeners == InitAll /\ [][NextListeners]_vars

----------------------------------------------------------------------------
(* The claims *)

\* The bands that are active on the last frame, by the claim's words: the
\* current energy is above 1.3 times the band's baseline, the mean of the
\* samples before it.
ActiveNow ==
    {b \in Bands :
        LET h == band_energies[b]
            n == Len(h) - 1
        IN /\ n >= 1
           /\ \A i \in 1..Len(h) : h[i] # NaN
           /\ 10 * h[n + 1] * n > 13 * SumSeq(SubSeq(h, 1, n))}

\* C5: is_music_beat reports a beat exactly when at least min_active_bands (2)
\* bands are active on the frame, and the magnitude it reports is the sum of
\* the current energies of exactly the active bands; a call that raises
\* reports no beat, and then fewer than 2 bands are active.
C5_BeatIffQuorum ==
    classified > 0 =>
        IF verdict.raised
        THEN ~verdict.is_beat /\ Cardinality(ActiveNow) < 2
        ELSE /\ verdict.is_beat <=> Cardinality(ActiveNow) >= 2
             /\ verdict.active = ActiveNow
             /\ verdict.total_energy =
                   SumSeq([i \in 1..Len(BandOrder) |->
                            IF BandOrder[i] \in ActiveNow
                            THEN band_energies[BandOrder[i]]
                                     [Len(band_energies[BandOrder[i]])]
                            ELSE 0])

\* A frame with exactly two active bands (energies 14 and 40) was reported as
\* a beat of magnitude 54.
C5_Witness ==
    /\ classified > 1
    /\ ~verdict.raised
    /\ verdict.is_beat
    /\ Cardinality(ActiveNow) = 2
    /\ verdict.total_energy = 54

\* C6: a band whose history holds fewer than 2 samples is not counted as
\* active, and the first frame after construction is never a beat.
C6_WarmUp ==
    /\ \A b \in Bands : Len(band_energies[b]) < 2 => b \notin verdict.active
    /\ classified <= 1 => ~verdict.is_beat

\* The first frame was loud in every band and was not a beat.
C6_Witness ==
    /\ classified = 1
    /\ \A b \in Bands : band_energies[b] = <<FourBandFrame[b]>>
    /\ ~verdict.is_beat
    /\ ~verdict.raised

\* C1: the audio queue never holds more than its capacity; audio_callback is
\* never made to wait (whatever the queue holds, a call can be made and ends in
\* one step, its put never failing); a call made while the detector is running
\* and the queue is full discards the frame and leaves the queue as it was.
C1_QueueBoundedNeverBlocks ==
    /\ [](Len(audio_queue) <= audio_queue_maxsize)
    /\ [](push_last # "error")
    /\ []((stream = "active" /\ produced < audio_queue_maxsize + MaxOverflow)
            => ENABLED AudioCallbackBurst)
    /\ [][(AudioCallbackBurst /\ is_running
              /\ Len(audio_queue) >= audio_queue_maxsize)
            => (audio_queue' = audio_queue /\ push_last' = "dropped")]_vars

\* A frame was discarded on a full queue of frames that differ.
C1_Witness ==
    /\ push_last = "dropped"
    /\ Len(audio_queue) = audio_queue_maxsize
    /\ \E i, j \in 1..Len(audio_queue) : audio_queue[i] # audio_queue[j]

\* C4: two accepted beats are more than min_beat_interval apart, and a frame
\* taken within min_beat_interval of the last accepted beat changes neither
\* last_beat_time nor beat_count and starts no round of listener calls.
C4_Debounce ==
    /\ [](beat_prev_time # NoTime =>
            last_beat_time - beat_prev_time > min_beat_interval)
    /\ [][\A i \in 1..Len(threads) :
            (ConsumerGet(i) /\ now - last_beat_time <= min_beat_interval)
            => /\ UNCHANGED <<last_beat_time, beat_count, beat_prev_time, dispatched>>
               /\ threads'[i].pc # "dispatch"]_vars

\* The third frame qualified as a beat (two active bands, energy 80) within
\* min_beat_interval of the beat of the second frame, and was suppressed.
C4_Witness ==
    /\ classified = 3
    /\ band_energies["mid"] = <<10, 40, 40>>
    /\ verdict.is_beat
    /\ verdict.total_energy > energy_threshold
    /\ now - last_beat_time <= min_beat_interval
    /\ beat_count = 1
    /\ Len(beat_callbacks) = 2
    /\ Len(dispatched) = 2

\* The listener calls of a complete round over the first n listeners.
RoundOf(n) ==
    [j \in 1..n |-> [idx |-> j, kind |-> beat_callbacks[j],
                     error |-> beat_callbacks[j] = "raises"]]

\* C7: in the round of an accepted beat each listener is called once, in
\* registration order, a raising listener being followed by the next one; the
\* consumer thread is in its loop, never ended or in its error handler.
C7_ListenersIsolated ==
    \A i \in 1..Len(threads) :
        /\ threads[i].pc \in {"test", "get", "dispatch"}
        /\ threads[i].pc = "dispatch" => dispatched = RoundOf(threads[i].idx - 1)
        /\ (threads[i].pc # "dispatch" /\ beat_count > 0)
              => dispatched = RoundOf(Len(beat_callbacks))

\* A raising listener was followed by the drone's listener in the round of the
\* second frame, and the consumer has classified the third frame since.
C7_Witness ==
    /\ beat_count = 1
    /\ band_energies["mid"] = <<10, 40, 10>>
    /\ beat_callbacks = <<"raises", "drone">>
    /\ Len(dispatched) = 2
    /\ dispatched[1].error
    /\ dispatched[2].kind = "drone"

\* C9: a failing drone move never reaches the detector: no call of the drone's
\* listener ends with an exception, the consumer thread is in its loop with no
\* error logged, and the step that runs a failing move removes one command
\* from the queue and leaves the consumer in its round or back in its loop.
C9_ExecutorFailureContained ==
    /\ [](/\ ~exec_last.raised
          /\ loop_errors = 0
          /\ \A j \in 1..Len(dispatched) :
                dispatched[j].kind = "drone" => ~dispatched[j].error
          /\ \A i \in 1..Len(threads) : threads[i].pc \in {"test", "get", "dispatch"})
    /\ [][(exec_last' # exec_last /\ exec_last'.failed) =>
            /\ Len(command_queue') = Len(command_queue)
            /\ \A i \in 1..Len(threads) :
                  threads[i].pc = "dispatch" => threads'[i].pc \in {"dispatch", "test"}]_vars

\* The move of the first beat failed, and the second beat was dispatched to
\* the drone's listener all the same, whose move was executed.
C9_Witness ==
    /\ beat_count = 2
    /\ exec_prev.failed
    /\ exec_prev.time = beat_prev_time
    /\ exec_last.time = last_beat_time
    /\ Len(dispatched) = 1
    /\ dispatched[1].kind = "drone"

\* C2 (as claimed): any two consecutive command executions are at least
\* min_command_interval apart.
C2_ExecutionsSpaced ==
    exec_prev.time # NoTime =>
        exec_last.time - exec_prev.time >= min_command_interval

\* C3: the actuation queue never holds more than max_queue_size commands, and
\* a perform_dance_move call made while the drone is flying and the queue is
\* full is dropped and leaves the queue as it was.
C3_QueueBoundedDropNewest ==
    /\ [](Len(command_queue) <= max_queue_size)
    /\ [][(PerformDanceMove /\ is_flying /\ Len(command_queue) >= max_queue_size)
            => (command_queue' = command_queue /\ offer_last' = "dropped")]_vars

C3_Witness ==
    /\ offer_last = "dropped"
    /\ Len(command_queue) = max_queue_size
    /\ \E i, j \in 1..Len(command_queue) : command_queue[i] # command_queue[j]

Running ==
    /\ is_running
    /\ stream = "active"
    /\ \E i \in 1..Len(threads) : threads[i].pc # "done"

\* C10: start() called while the detector is Running returns at once: the
\* caller does not enter the initialisation, no consumer thread is started,
\* no stream or PyAudio instance is opened, and is_running and the rest of
\* the detector, classifier and drone state are unchanged.
C10_StartWhileRunningNoOp ==
    [][\A c \in Callers : (Running /\ StartCall(c)) =>
            /\ call'[c].pc = "idle"
            /\ call_result'[c] = "noop"
            /\ UNCHANGED <<detVars, clsVars, droneVars>>]_vars

C10_Witness ==
    /\ Running
    /\ call["main"].pc = "s_wait"
    /\ call["ctl"].pc = "idle"
    /\ call_result["ctl"] = "noop"
    /\ Len(threads) = 1

\* The detector is as __init__ leaves it: nothing was started, no audio
\* handle, stream or consumer thread exists and no frame was delivered.
NeverStarted ==
    /\ ~is_running
    /\ p = "unset"
    /\ stream = "unset"
    /\ device_index = "none"
    /\ threads = <<>>
    /\ produced = 0
    /\ \A c \in Callers : ~call[c].nested

\* C11: stop() called on a detector that was constructed but never started
\* raises no error and leaves the detector Idle: the step of stop() that
\* looks at self.stream does not end the call with an AttributeError, and
\* the detector's state is unchanged.
C11_StopNeverStartedNoOp ==
    [][\A c \in Callers : (NeverStarted /\ StopStream(c)) =>
            /\ call_result'[c] # "AttributeError"
            /\ UNCHANGED <<is_running, p, stream, device_index, threads>>]_vars

\* C13: when a step of start() fails, the call ends by raising the original
\* error, with is_running false, no audio handle live, no stream active and
\* no consumer thread left that start() would have to stop.
C13_FailedStartLeavesIdle ==
    [][\A c \in Callers :
          (call[c].nested /\ call'[c].pc = "idle") =>
              /\ call_result'[c] = "raised"
              /\ (\A d \in Callers \ {c} : call[d].pc = "idle") =>
                    /\ ~is_running'
                    /\ p' # "live"
                    /\ stream' # "active"
                    /\ \A i \in 1..Len(threads') : threads'[i].pc = "done"]_vars

\* The detector is Idle after a stop() that followed a successful open: the
\* running flag is clear, the stream closed, the audio handle released.
Stopped ==
    /\ ~is_running
    /\ stream = "closed"
    /\ p = "terminated"

StopStep(c) == StopCall(c) \/ StopStream(c) \/ StopTerminate(c) \/ StopJoin(c)

\* C12: a stop() made when a stop() after a start() has already left the
\* detector Idle changes nothing: each of its steps leaves the running flag
\* clear, the stream closed and the handle released, starts and ends no
\* thread, and the call ends without an error.
C12_StopTwiceSameState ==
    [][\A c \in Callers : (Stopped /\ ~call[c].nested /\ StopStep(c)) =>
            /\ Stopped'
            /\ UNCHANGED <<device_index, threads, audio_queue, clsVars>>
            /\ call_result'[c] \in {"none", "stopped"}
            /\ call'[c].pc = "idle" => call_result'[c] = "stopped"]_vars

C12_Witness ==
    /\ Stopped
    /\ \A c \in Callers : call[c].pc = "idle" /\ call_result[c] = "stopped"
    /\ Len(threads) = 1
    /\ threads[1].pc = "done"

\* No registered listener is one that never returns.
ListenersReturn == \A k \in 1..Len(beat_callbacks) : beat_callbacks[k] # "hangs"

\* C14: a stop() that has begun on a detector whose stream was opened always
\* returns, whether or not the consumer thread has ended and even if a
\* listener call never returns; and if every
\* listener call returns, then from any moment at which is_running is clear
\* each consumer thread has eventually ended, unless is_running is set again.
C14_ShutdownBounded ==
    /\ (call["ctl"].pc \in {"t_stream", "t_pa", "t_join"} /\ stream # "unset")
          ~> (call["ctl"].pc = "idle" /\ call_result["ctl"] = "stopped")
    /\ \A i \in 1..MaxStarts :
          (~is_running /\ i <= Len(threads) /\ ListenersReturn)
              ~> (is_running \/ (i <= Len(threads) /\ threads[i].pc = "done"))

C14_Witness ==
    /\ ~is_running
    /\ call["ctl"].pc = "idle"
    /\ call_result["ctl"] = "stopped"
    /\ stream = "closed"
    /\ p = "terminated"
    /\ \E i \in 1..Len(threads) :
          threads[i].pc = "dispatch" /\ beat_callbacks[threads[i].idx] = "hangs"

\* C15: the audio callback puts a frame behind the waiting ones or leaves
\* the queue alone; the consumer classifies the frame at the head of the
\* queue and removes exactly that one; no other step touches the queue; and
\* a frame is classified only when the listeners' round of every earlier
\* beat is complete, each round growing by one listener call at a time.
C15_FifoOrder ==
    [][/\ produced' # produced =>
             \/ audio_queue' = audio_queue
             \/ \E f \in PipeFrames : audio_queue' = Append(audio_queue, f)
       /\ classified' # classified =>
             /\ audio_queue # <<>>
             /\ audio_queue' = Tail(audio_queue)
             /\ \A b \in Bands :
                   band_energies'[b] =
                       Append(band_energies[b], GetBandEnergy(Head(audio_queue), b))
             /\ beat_count > 0 => dispatched = RoundOf(Len(beat_callbacks))
       /\ (produced' = produced /\ classified' = classified) =>
             audio_queue' = audio_queue
       /\ beat_count' # beat_count =>
             /\ classified' = classified + 1
             /\ dispatched' = <<>>
       /\ (dispatched' # dispatched /\ beat_count' = beat_count) =>
             dispatched' = RoundOf(Len(dispatched) + 1)]_vars

\* A quiet and a loud frame were classified in that order, the loud one was
\* a beat whose round is complete, and a further frame is waiting.
C15_Witness ==
    /\ classified = 2
    /\ band_energies["mid"] = <<10, 40>>
    /\ beat_count = 1
    /\ beat_callbacks # <<>>
    /\ dispatched = RoundOf(Len(beat_callbacks))
    /\ audio_queue # <<>>

\* The consumer threads that are executing process_audio.
LiveThreads == {i \in 1..Len(threads) : threads[i].pc # "done"}

\* C16: at every moment at most one consumer thread is executing
\* process_audio.
C16_OneConsumer == Cardinality(LiveThreads) <= 1

\* C17: when stop() returns, every band's energy history is empty.
C17_HistoriesClearedOnStop ==
    [][\A c \in Callers :
          (call[c].pc = "t_join" /\ call'[c].pc = "idle") =>
              \A b \in Bands : band_energies'[b] = <<>>]_vars

\* The history h with every NaN sample replaced by an energy of 0.
Zeroed(h) == [i \in 1..Len(h) |-> IF IsNaN(h[i]) THEN 0 ELSE h[i]]

\* The bands that are active on the last frame when NaN samples count as 0.
ActiveWithNaNAsZero == {b \in Bands : IsBandBeat(Zeroed(band_energies[b]))}

\* C18: a NaN band energy has the effect of an energy of 0: the band's
\* history holds 0 for it, and the bands found active on every later frame
\* are those found with 0 in its place.
C18_NaNTreatedAsZero ==
    /\ \A b \in Bands : band_energies[b] = Zeroed(band_energies[b])
    /\ classified > 0 => verdict.active = ActiveWithNaNAsZero

\* C19: every band's history holds at most history_size samples; a call of
\* is_music_beat puts the new sample behind the others and, when the history
\* was full, removes the oldest one; and the bands found active are those
\* whose newest sample is above 1.3 times the mean of the other retained
\* samples.
C19_HistoryFifoBaseline ==
    /\ [](/\ \A b \in Bands : Len(band_energies[b]) <= history_size
          /\ classified > 0 => verdict.active = ActiveNow)
    /\ [][classified' # classified =>
            \A b \in Bands :
                LET h == band_energies[b]
                    h1 == band_energies'[b]
                IN /\ h1 # <<>>
                   /\ SubSeq(h1, 1, Len(h1) - 1) =
                         IF Len(h) < history_size THEN h ELSE Tail(h)]_vars

\* The twentieth frame was loud and the twenty-first quiet: the loud sample
\* has moved up one place and the first frame's sample is gone.
C19_Witness ==
    /\ classified = history_size + 1
    /\ \A b \in Bands : Len(band_energies[b]) = history_size
    /\ band_energies["mid"][history_size - 1] = 40
    /\ band_energies["mid"][history_size] = 10

\* A call of perform_dance_move at time t would execute a command: the drone
\* is flying, the call's own command is accepted (line 62) and the time test
\* passes (line 67).
CallWouldExecuteAt(t) ==
    /\ is_flying
    /\ QueueHasRoom(command_queue)
    /\ TimeForNewMove(t, last_command_time)

\* C20: while the drone is flying and commands are waiting in command_queue,
\* a call of perform_dance_move made min_command_interval or more after the
\* last one executes a command: the queue is never in a state from which no
\* later call executes.
C20_QueueProgress ==
    (is_flying /\ command_queue # <<>>) =>
        \E t \in now..(now + min_command_interval) : CallWouldExecuteAt(t)

\* C21: whenever main() has ended, a drone that is flying has been commanded
\* to land by the cleanup of the finally block.
C21_FlyingDroneLanded == (main_pc = "m_end" /\ is_flying) => land_called

\* C22: a dance move starts executing only while the drone is flying: no
\* move is executed once land() has made is_flying false.
C22_MovesOnlyWhileFlying == [][exec_last' # exec_last => is_flying]_vars

\* stop() by the second thread has returned and no start() has set the
\* running flag since.
StopReturned ==
    /\ call["ctl"].pc = "idle"
    /\ call_result["ctl"] = "stopped"
    /\ ~is_running

\* C23: after stop() has returned, and until a later start(), no listener
\* call begins and beat_count does not change.
C23_QuietAfterStop ==
    [][StopReturned =>
          /\ beat_count' = beat_count
          /\ \A i \in 1..Len(threads) :
                threads[i].pc = "dispatch" => threads'[i] = threads[i]]_vars

====
